---- MODULE Spec2Model ----
(***************************************************************************)
(* Soil_Tester: three independent ESP32 sketches.                          *)
(*   _moisture_testing.ino  soil moisture, read on every GET /             *)
(*   PH_TESTER.ino          pH, 8 ADC reads averaged on every GET /ph      *)
(*   unnamed/part_000       TDS, sampled from loop() every 400 ms          *)
(* Each sketch is a separate program; it gets its own specification over   *)
(* its own variables, the other sketches' variables staying at their       *)
(* initial values.                                                         *)
(*                                                                         *)
(* Numbers.  The sketches compute in float.  The model computes the same   *)
(* expressions exactly: a float is an integer numerator over a fixed       *)
(* denominator (pH), a <<sum, count>> pair (the TDS average) or a          *)
(* fixed-point value (TDS voltage in mV, TDS in 1/100 ppm).  unsigned long *)
(* is a 32-bit word, kept as <<high 16 bits, low 16 bits>>.                *)
(***************************************************************************)
EXTENDS Integers, Sequences, FiniteSets, TLC

(***************************************************************************)
(* Helpers shared by the sketches                                          *)
(***************************************************************************)
Abs(x) == IF x < 0 THEN -x ELSE x

\* C integer division: the quotient is truncated toward zero.
TruncDiv(a, b) ==
  LET q == Abs(a) \div Abs(b)
  IN  IF (a < 0) # (b < 0) THEN -q ELSE q

RECURSIVE GCD(_, _)
GCD(a, b) == IF b = 0 THEN a ELSE GCD(b, a % b)

\* round(num / den) to the nearest integer, num >= 0, den > 0
RoundDiv(num, den) ==
  (num \div den) + (IF 2 * (num % den) >= den THEN 1 ELSE 0)

\* String(int): the decimal digits of a non-negative int, most significant first
RECURSIVE DecimalDigits(_)
DecimalDigits(n) ==
  IF n < 10 THEN <<n>> ELSE Append(DecimalDigits(n \div 10), n % 10)

\* 12-bit ADC: analogRead() returns a code in 0..4095
ADC_MAX == 4095

(***************************************************************************)
(* Moisture sketch                                                         *)
(***************************************************************************)
WET_VALUE == 1600
DRY_VALUE == 3900
MOISTURE_ALERT_THRESHOLD == 30

\* no raw value has been read yet
NoRaw == -1

\* The codes analogRead() is drawn from: both ends of the ADC range and,
\* across the whole range, every code at which the integer percentage
\* changes (DRY_VALUE - 23*k) with its two neighbours.
MoistureCodes ==
  {0, ADC_MAX} \cup {r \in 0..ADC_MAX : r % 23 \in {12, 13, 14}}

\* Arduino map(): long arithmetic, truncating division
ArduinoMap(x, in_min, in_max, out_min, out_max) ==
  TruncDiv((x - in_min) * (out_max - out_min), in_max - in_min) + out_min

constrain(x, lo, hi) == IF x < lo THEN lo ELSE IF x > hi THEN hi ELSE x

MapMoistureSwapped(rawValue) ==
  ArduinoMap(rawValue, WET_VALUE, DRY_VALUE, 0, 100)

\* readMoisture(): mappedValue
MapMoisture(rawValue) ==
  ArduinoMap(rawValue, DRY_VALUE, WET_VALUE, 0, 100)

\* readMoisture(): the value stored in moisturePercentage
MoisturePercent(rawValue) == constrain(MapMoisture(rawValue), 0, 100)

LowMoistureInclusive(pct) == pct <= MOISTURE_ALERT_THRESHOLD

\* handleRoot(): the condition of the alert branch
LowMoisture(pct) == pct < MOISTURE_ALERT_THRESHOLD

\* handleRoot(): the parts of the page that depend on the reading
MoisturePage(pct) ==
  [h2    |-> Append(DecimalDigits(pct), "%"),
   class |-> IF LowMoisture(pct) THEN "alert" ELSE "ok"]

(***************************************************************************)
(* pH sketch                                                               *)
(***************************************************************************)
SAMPLE_COUNT == 8
\* VREF = 3.3, neutralVoltage = 2.50, slopeVoltagePerPH = 0.177, in mV
VREF_mV == 3300
neutralVoltage_mV == 2500
slopeVoltagePerPH_mV == 177
\* setup(): millis() - start < 20000, delay(300), delay(100)
PH_WIFI_WINDOW == 20000
PH_WIFI_DELAY == 300
PH_BOOT_DELAY == 100

\* The codes the 8 reads of one request are drawn from: the two ends of the
\* ADC range.  The sums are k * 4095, k = 0..8; a sum below 12519 (k <= 3)
\* is clipped to pH 14, k = 6 is above pH 7 and k = 7 below it.
PHCodes == {0, ADC_MAX}

RECURSIVE SumTo(_, _)
SumTo(f, n) == IF n = 0 THEN 0 ELSE f[n] + SumTo(f, n - 1)

\* voltage = (sum / SAMPLE_COUNT / ADC_MAX) * VREF, in mV, is
\* sum * VoltNum / VoltDen with the fraction VREF_mV / (SAMPLE_COUNT * ADC_MAX)
\* in lowest terms.
VoltG == GCD(VREF_mV, SAMPLE_COUNT * ADC_MAX)
VoltNum == VREF_mV \div VoltG
VoltDen == (SAMPLE_COUNT * ADC_MAX) \div VoltG

\* handlePH(): voltage, as a numerator over VoltDen (mV)
PHVoltage(sum) == sum * VoltNum

\* pH values are numerators over PHDen
PHDen == slopeVoltagePerPH_mV * VoltDen
PHUnit(n) == n * PHDen

PHFormulaRising(sum) ==
  PHUnit(7) - (neutralVoltage_mV * VoltDen - PHVoltage(sum))

\* handlePH(): pH = 7.0 + (neutralVoltage - voltage) / slopeVoltagePerPH
PHFormula(sum) ==
  PHUnit(7) + (neutralVoltage_mV * VoltDen - PHVoltage(sum))

PHClipLowOnly(pH) == IF pH < PHUnit(0) THEN PHUnit(0) ELSE pH

\* handlePH(): if(pH < 0.0) pH = 0.0; if(pH > 14.0) pH = 14.0;
PHClip(pH) ==
  LET low == IF pH < PHUnit(0) THEN PHUnit(0) ELSE pH
  IN  IF low > PHUnit(14) THEN PHUnit(14) ELSE low

\* String(pH, 3): the value in thousandths; String(voltage, 4): in 1/10000 V
FormatPH(pH) == RoundDiv(pH * 1000, PHDen)
FormatVoltage(v) == RoundDiv(v * 10, VoltDen)

\* handlePH(): the JSON body for a sum of SAMPLE_COUNT reads
PHJson(sum) ==
  [pH |-> FormatPH(PHClip(PHFormula(sum))), voltage |-> FormatVoltage(PHVoltage(sum))]

(***************************************************************************)
(* TDS sketch                                                              *)
(***************************************************************************)
SMOOTH_N == 8
ADC_BITS == 4095
\* VREF = 3.3 in mV; calibrationFactor = 0.5 in tenths
TDS_VREF_mV == 3300
calibrationFactor_x10 == 5
\* the polynomial's coefficients 133.42, 255.86, 857.39 in hundredths
TDS_C3 == 13342
TDS_C2 == 25586
TDS_C1 == 85739
\* loop(): now - lastReadMs >= 400
TDS_SAMPLE_PERIOD == 400
\* setup(): tries < 25, delay(400), delay(100)
TDS_WIFI_TRIES == 25
TDS_WIFI_DELAY == 400
TDS_BOOT_DELAY == 100

\* loop() iterations a run is followed for
MaxLoops == 9

\* The codes analogRead(TDS_PIN) is drawn from
TDSCodes == {0, ADC_BITS}
\* The time from one loop() iteration to the next, in ms: half a sampling
\* period and a whole one
LoopDeltas == {200, 400}
\* A stretch of 2^31 - 1000 ms between two iterations: two of them bring
\* millis() to within 2 s of the 32-bit wrap.
LongIdle == 2147482648
ClockCodes == {2048}
ClockDeltas == {200, 400, LongIdle}

\* unsigned long: a 32-bit word as <<high half, low half>>
W16 == 65536
U32(n) == <<n \div W16, n % W16>>
U32Add(a, b) ==
  LET lo == a[2] + b[2]
      hi == a[1] + b[1] + (lo \div W16)
  IN  <<hi % W16, lo % W16>>
U32Sub(a, b) ==
  LET lo == a[2] - b[2]
      hi == a[1] - b[1] - (IF lo < 0 THEN 1 ELSE 0)
  IN  <<hi % W16, lo % W16>>
U32Less(a, b) == a[1] < b[1] \/ (a[1] = b[1] /\ a[2] < b[2])
\* a >= n for a constant n below 2^16
U32AtLeast(a, n) == a[1] > 0 \/ a[2] >= n

TimerDueNoWrap(now, last) ==
  LET lo == last[2] + TDS_SAMPLE_PERIOD
      hi == last[1] + (lo \div W16)
  IN  now[1] > hi \/ (now[1] = hi /\ now[2] >= lo % W16)

\* loop(): now - lastReadMs >= 400, in unsigned 32-bit arithmetic
TimerDue(now, last) == U32AtLeast(U32Sub(now, last), TDS_SAMPLE_PERIOD)

RECURSIVE SumBuffer(_, _)
SumBuffer(buf, count) ==
  IF count = 0 THEN 0 ELSE buf[count - 1] + SumBuffer(buf, count - 1)

NextIndexLate(index) == IF index + 1 > SMOOTH_N THEN 0 ELSE index + 1

\* readTDS(): smoothingIndex after the write and the wrap
NextIndex(index) == IF index + 1 >= SMOOTH_N THEN 0 ELSE index + 1

\* readTDS(): smoothingFilled after the wrap
NextFilled(index, filled) == filled \/ index + 1 >= SMOOTH_N

SmoothCountWhole(index, filled) == SMOOTH_N

\* readTDS(): int count = smoothingFilled ? SMOOTH_N : smoothingIndex
SmoothCount(index, filled) == IF filled THEN SMOOTH_N ELSE index

\* readTDS(): avgRaw as <<numerator, denominator>>
AvgRaw(buf, count, raw) ==
  IF count > 0 THEN <<SumBuffer(buf, count), count>> ELSE <<raw, 1>>

\* readTDS(): voltage = (avgRaw / ADC_BITS) * VREF, in mV
TDSVoltage(avg) == (avg[1] * TDS_VREF_mV) \div (avg[2] * ADC_BITS)

\* readTDS(): (133.42 v^3 - 255.86 v^2 + 857.39 v) * calibrationFactor for v
\* in mV, by Horner's rule, in 1/100 ppm
TDSPolynomial(v) ==
  LET a == (TDS_C3 * v) \div 1000
      b == ((a - TDS_C2) * v) \div 1000
      c == ((b + TDS_C1) * v) \div 1000
  IN  (c * calibrationFactor_x10) \div 10

TDSValueSignSlip(v) ==
  LET a == (TDS_C3 * v) \div 1000
      b == ((a - TDS_C2) * v) \div 1000
      c == ((b - TDS_C1) * v) \div 1000
  IN  (c * calibrationFactor_x10) \div 10

\* readTDS(): tdsVal after the safety clamp
TDSValue(v) ==
  LET tdsVal == TDSPolynomial(v)
  IN  IF tdsVal < 0 THEN 0 ELSE tdsVal

\* String(x, d) of a fixed-point value with d decimals
FormatFixed(x, scale) == [int |-> x \div scale, frac |-> x % scale]

\* handleTDS(): the JSON body
TDSJson(tds, voltage, raw, time) ==
  [kind |-> "tds", tds |-> FormatFixed(tds, 100),
   voltage |-> FormatFixed(voltage, 1000), raw |-> raw, time |-> time]

VARIABLES
  m_pc,                \* moisture: "poll", "delay" (setup's WiFi loop), "loop"
  m_log,               \* moisture: what setup() printed about WiFi
  m_serverStarted,     \* moisture: server.begin() was called
  m_rawValue,          \* moisture: rawValue of the last readMoisture()
  moisturePercentage,  \* moisture: the global
  m_page,              \* moisture: the page of the last GET /
  p_pc,                \* pH: "boot", "poll", "delay", "loop"
  p_millis,            \* pH: the clock while setup() runs
  p_start,             \* pH: setup()'s start
  p_log,               \* pH: what setup() printed about WiFi
  p_serverStarted,     \* pH: server.begin() was called
  p_sum,               \* pH: sum of the last handlePH()
  p_voltage,           \* pH: voltage of the last handlePH()
  p_pH,                \* pH: pH of the last handlePH(), after clipping
  p_json,              \* pH: body of the last /ph response
  t_pc,                \* TDS: "boot", "poll", "delay", "timer", "serve"
  t_millis,            \* TDS: the clock, a 32-bit word
  t_tries,             \* TDS: setup()'s tries
  t_log,               \* TDS: what setup() printed about WiFi
  t_serverStarted,     \* TDS: server.begin() was called
  smoothingBuffer,     \* TDS: the globals
  smoothingIndex,
  smoothingFilled,
  lastReadMs,
  lastVoltage,
  lastTDS,
  t_count,             \* TDS: count of the last readTDS()
  t_avgRaw,            \* TDS: avgRaw of the last readTDS()
  t_response,          \* TDS: what this loop() iteration sent
  t_loops,             \* TDS: loop() iterations begun
  t_samples,           \* history: readTDS() calls so far
  t_recent,            \* history: the codes of the last SMOOTH_N calls
  t_sampledTDS,        \* history: lastTDS, lastVoltage as the last call left them
  t_sampledVoltage,
  t_elapsed,           \* history: ms since lastReadMs was assigned
  t_sampledNow,        \* history: the last timer step called readTDS()
  t_gap,               \* history: ms from the previous assignment of
                       \*          lastReadMs to the last timer check
  t_wrapped            \* history: millis() has wrapped around

mvars == <<m_pc, m_log, m_serverStarted, m_rawValue, moisturePercentage, m_page>>
pvars == <<p_pc, p_millis, p_start, p_log, p_serverStarted, p_sum, p_voltage,
           p_pH, p_json>>
sampler == <<smoothingBuffer, smoothingIndex, smoothingFilled, lastReadMs,
             lastVoltage, lastTDS>>
tlocal == <<t_count, t_avgRaw>>
thist == <<t_samples, t_recent, t_sampledTDS, t_sampledVoltage, t_elapsed,
           t_sampledNow, t_gap, t_wrapped>>
tvars == <<t_pc, t_millis, t_tries, t_log, t_serverStarted, sampler, tlocal,
           t_response, t_loops, thist>>
vars == <<mvars, pvars, tvars>>

NoPage == [h2 |-> <<>>, class |-> "none"]
NoJson == [pH |-> -1, voltage |-> -1]

Moisture_Init ==
  /\ m_pc = "poll"
  /\ m_log = "none"
  /\ m_serverStarted = FALSE
  /\ m_rawValue = NoRaw
  /\ moisturePercentage = 0
  /\ m_page = NoPage

PH_Init ==
  /\ p_pc = "boot"
  /\ p_millis = 0
  /\ p_start = 0
  /\ p_log = "none"
  /\ p_serverStarted = FALSE
  /\ p_sum = NoRaw
  /\ p_voltage = 0
  /\ p_pH = 0
  /\ p_json = NoJson

NoResponse == [kind |-> "none"]

TDS_Init ==
  /\ t_pc = "boot"
  /\ t_millis = U32(0)
  /\ t_tries = 0
  /\ t_log = "none"
  /\ t_serverStarted = FALSE
  /\ smoothingBuffer = [i \in 0..(SMOOTH_N - 1) |-> 0]
  /\ smoothingIndex = 0
  /\ smoothingFilled = FALSE
  /\ lastReadMs = U32(0)
  /\ lastVoltage = 0
  /\ lastTDS = 0
  /\ t_count = 0
  /\ t_avgRaw = <<0, 1>>
  /\ t_response = NoResponse
  /\ t_loops = 0
  /\ t_samples = 0
  /\ t_recent = <<>>
  /\ t_sampledTDS = 0
  /\ t_sampledVoltage = 0
  /\ t_elapsed = 0
  /\ t_sampledNow = FALSE
  /\ t_gap = 0
  /\ t_wrapped = FALSE

Init == Moisture_Init /\ PH_Init /\ TDS_Init

(***************************************************************************)
(* Moisture: setup() and loop()                                            *)
(***************************************************************************)
\* setup(): one evaluation of while (WiFi.status() != WL_CONNECTED); when it
\* is false the rest of setup() runs.
Moisture_setupPoll(connected) ==
  /\ m_pc = "poll"
  /\ IF connected
       THEN /\ m_log' = "connected"
            /\ m_serverStarted' = TRUE
            /\ m_pc' = "loop"
       ELSE /\ m_pc' = "delay"
            /\ UNCHANGED <<m_log, m_serverStarted>>
  /\ UNCHANGED <<m_rawValue, moisturePercentage, m_page, pvars, tvars>>

\* setup(): the body of the wait loop, delay(500); Serial.print(".")
Moisture_setupDelay ==
  /\ m_pc = "delay"
  /\ m_pc' = "poll"
  /\ UNCHANGED <<m_log, m_serverStarted, m_rawValue, moisturePercentage,
                 m_page, pvars, tvars>>

\* loop(): server.handleClient() serving GET /, that is handleRoot()
Moisture_handleRoot(rawValue) ==
  /\ m_pc = "loop"
  /\ m_rawValue' = rawValue
  /\ moisturePercentage' = MoisturePercent(rawValue)
  /\ m_page' = MoisturePage(moisturePercentage')
  /\ UNCHANGED <<m_pc, m_log, m_serverStarted, pvars, tvars>>

Moisture_Next ==
  \/ \E connected \in BOOLEAN : Moisture_setupPoll(connected)
  \/ Moisture_setupDelay
  \/ \E rawValue \in MoistureCodes : Moisture_handleRoot(rawValue)

SpecMoisture == Init /\ [][Moisture_Next]_vars
\* setup() and loop() run whenever they can
FairSpecMoisture == SpecMoisture /\ WF_vars(Moisture_Next)

(***************************************************************************)
(* pH: setup() and loop()                                                  *)
(***************************************************************************)
\* setup() up to unsigned long start = millis()
PH_setupBegin ==
  /\ p_pc = "boot"
  /\ p_millis' = p_millis + PH_BOOT_DELAY
  /\ p_start' = p_millis'
  /\ p_pc' = "poll"
  /\ UNCHANGED <<p_log, p_serverStarted, p_sum, p_voltage, p_pH, p_json, mvars, tvars>>

\* setup(): one evaluation of the while condition; when it is false the rest
\* of setup() runs, which reads WiFi.status() again.
PH_setupPoll(connected, connectedAfter) ==
  /\ p_pc = "poll"
  /\ IF ~connected /\ p_millis - p_start < PH_WIFI_WINDOW
       THEN /\ p_pc' = "delay"
            /\ UNCHANGED <<p_log, p_serverStarted>>
       ELSE /\ p_log' = IF connectedAfter THEN "connected" ELSE "failed"
            /\ p_serverStarted' = TRUE
            /\ p_pc' = "loop"
  /\ UNCHANGED <<p_millis, p_start, p_sum, p_voltage, p_pH, p_json, mvars, tvars>>

\* setup(): the body of the wait loop, delay(300); Serial.print('.')
PH_setupDelay ==
  /\ p_pc = "delay"
  /\ p_millis' = p_millis + PH_WIFI_DELAY
  /\ p_pc' = "poll"
  /\ UNCHANGED <<p_start, p_log, p_serverStarted, p_sum, p_voltage, p_pH,
                 p_json, mvars, tvars>>

\* loop(): server.handleClient() serving GET /ph, that is handlePH()
PH_handlePH(samples) ==
  /\ p_pc = "loop"
  /\ LET sum == SumTo(samples, SAMPLE_COUNT)
     IN  /\ p_sum' = sum
         /\ p_voltage' = PHVoltage(sum)
         /\ p_pH' = PHClip(PHFormula(sum))
         /\ p_json' = PHJson(sum)
  /\ UNCHANGED <<p_pc, p_millis, p_start, p_log, p_serverStarted, mvars, tvars>>

PH_Next ==
  \/ PH_setupBegin
  \/ \E connected, connectedAfter \in BOOLEAN :
       PH_setupPoll(connected, connectedAfter)
  \/ PH_setupDelay
  \/ \E samples \in [1..SAMPLE_COUNT -> PHCodes] : PH_handlePH(samples)

SpecPH == Init /\ [][PH_Next]_vars
FairSpecPH == SpecPH /\ WF_vars(PH_Next)

(***************************************************************************)
(* TDS: setup() and loop()                                                 *)
(***************************************************************************)
\* setup() up to int tries = 0
TDS_setupBegin ==
  /\ t_pc = "boot"
  /\ t_millis' = U32Add(t_millis, U32(TDS_BOOT_DELAY))
  /\ t_tries' = 0
  /\ t_pc' = "poll"
  /\ UNCHANGED <<t_log, t_serverStarted, sampler, tlocal, t_response, t_loops,
                 thist, mvars, pvars>>

\* setup(): one evaluation of the while condition; when it is false the rest
\* of setup() runs: the second WiFi.status() read, the zeroing of the buffer,
\* server.begin() and lastReadMs = millis().
TDS_setupPoll(connected, connectedAfter) ==
  /\ t_pc = "poll"
  /\ IF ~connected /\ t_tries < TDS_WIFI_TRIES
       THEN /\ t_pc' = "delay"
            /\ UNCHANGED <<t_log, t_serverStarted, sampler, t_elapsed>>
       ELSE /\ t_log' = IF connectedAfter THEN "connected" ELSE "failed"
            /\ smoothingBuffer' = [i \in 0..(SMOOTH_N - 1) |-> 0]
            /\ t_serverStarted' = TRUE
            /\ lastReadMs' = t_millis
            /\ t_elapsed' = 0
            /\ t_pc' = "timer"
            /\ UNCHANGED <<smoothingIndex, smoothingFilled, lastVoltage, lastTDS>>
  /\ UNCHANGED <<t_millis, t_tries, tlocal, t_response, t_loops, t_samples,
                 t_recent, t_sampledTDS, t_sampledVoltage, t_sampledNow,
                 t_gap, t_wrapped, mvars, pvars>>

\* setup(): the body of the wait loop, delay(400); Serial.print("."); tries++
TDS_setupDelay ==
  /\ t_pc = "delay"
  /\ t_millis' = U32Add(t_millis, U32(TDS_WIFI_DELAY))
  /\ t_tries' = t_tries + 1
  /\ t_pc' = "poll"
  /\ UNCHANGED <<t_log, t_serverStarted, sampler, tlocal, t_response, t_loops,
                 thist, mvars, pvars>>

\* readTDS() with analogRead(TDS_PIN) = raw
TDS_readTDS(raw) ==
  LET buf == [smoothingBuffer EXCEPT ![smoothingIndex] = raw]
      index == NextIndex(smoothingIndex)
      filled == NextFilled(smoothingIndex, smoothingFilled)
      count == SmoothCount(index, filled)
      avgRaw == AvgRaw(buf, count, raw)
      voltage == TDSVoltage(avgRaw)
  IN  /\ smoothingBuffer' = buf
      /\ smoothingIndex' = index
      /\ smoothingFilled' = filled
      /\ t_count' = count
      /\ t_avgRaw' = avgRaw
      /\ lastVoltage' = voltage
      /\ lastTDS' = TDSValue(voltage)

\* the SMOOTH_N last elements of s
LastN(s) ==
  IF Len(s) <= SMOOTH_N THEN s ELSE SubSeq(s, Len(s) - SMOOTH_N + 1, Len(s))

\* loop() up to server.handleClient(): d ms after the previous iteration read
\* millis(), now = millis() and the timer check; raw is what analogRead()
\* returns if readTDS() is called.
TDS_loopTimer(d, raw) ==
  /\ t_pc = "timer"
  /\ t_loops < MaxLoops
  /\ t_loops' = t_loops + 1
  /\ t_millis' = U32Add(t_millis, U32(d))
  /\ t_wrapped' = (t_wrapped \/ U32Less(t_millis', t_millis))
  /\ t_gap' = t_elapsed + d
  /\ IF TimerDue(t_millis', lastReadMs)
       THEN /\ TDS_readTDS(raw)
            /\ lastReadMs' = t_millis'
            /\ t_samples' = t_samples + 1
            /\ t_recent' = LastN(Append(t_recent, raw))
            /\ t_sampledTDS' = lastTDS'
            /\ t_sampledVoltage' = lastVoltage'
            /\ t_elapsed' = 0
            /\ t_sampledNow' = TRUE
       ELSE /\ t_elapsed' = t_elapsed + d
            /\ t_sampledNow' = FALSE
            /\ UNCHANGED <<sampler, tlocal, t_samples, t_recent, t_sampledTDS,
                           t_sampledVoltage>>
  /\ t_response' = NoResponse
  /\ t_pc' = "serve"
  /\ UNCHANGED <<t_tries, t_log, t_serverStarted, mvars, pvars>>

TDS_handleTDSResampling(raw) ==
  /\ TDS_readTDS(raw)
  /\ t_response' = TDSJson(lastTDS', lastVoltage', raw, t_millis)
  /\ UNCHANGED lastReadMs

\* handleRoot()
TDS_handleRoot ==
  /\ t_response' = [kind |-> "page"]
  /\ UNCHANGED <<sampler, tlocal>>

\* handleTDS() with analogRead(TDS_PIN) = raw
TDS_handleTDS(raw) ==
  /\ t_response' = TDSJson(lastTDS, lastVoltage, raw, t_millis)
  /\ UNCHANGED <<sampler, tlocal>>

\* loop(): server.handleClient(), which serves the pending request if any
TDS_loopServe(req, raw) ==
  /\ t_pc = "serve"
  /\ CASE req = "/"    -> TDS_handleRoot
       [] req = "/tds" -> TDS_handleTDS(raw)
       [] OTHER        -> UNCHANGED <<sampler, tlocal, t_response>>
  /\ t_pc' = "timer"
  /\ UNCHANGED <<t_millis, t_tries, t_log, t_serverStarted, t_loops, thist,
                 mvars, pvars>>

TDS_NextOver(codes, deltas) ==
  \/ TDS_setupBegin
  \/ \E connected, connectedAfter \in BOOLEAN :
       TDS_setupPoll(connected, connectedAfter)
  \/ TDS_setupDelay
  \/ \E d \in deltas, raw \in codes : TDS_loopTimer(d, raw)
  \/ \E req \in {"none", "/", "/tds"}, raw \in codes : TDS_loopServe(req, raw)

TDS_Next == TDS_NextOver(TDSCodes, LoopDeltas)
SpecTDS == Init /\ [][TDS_Next]_vars

\* the same program followed across the wrap of millis()
TDSClock_Next == TDS_NextOver(ClockCodes, ClockDeltas)
SpecTDSClock == Init /\ [][TDSClock_Next]_vars

FairSpecTDSClock == SpecTDSClock /\ WF_vars(TDSClock_Next)

(***************************************************************************)
(* Properties                                                              *)
(***************************************************************************)
RECURSIVE SumSeq(_)
SumSeq(s) == IF s = <<>> THEN 0 ELSE Head(s) + SumSeq(Tail(s))

Min(a, b) == IF a < b THEN a ELSE b

\* C1: readMoisture() gives 0 at raw = 3900 and above, 100 at raw = 1600 and
\* below, and of two raw codes the smaller never gets the smaller percentage.
C1_MoistureMapping ==
  /\ [](m_rawValue # NoRaw =>
          /\ (m_rawValue = 3900 => moisturePercentage = 0)
          /\ (m_rawValue = 1600 => moisturePercentage = 100)
          /\ (m_rawValue > 3900 => moisturePercentage = 0)
          /\ (m_rawValue < 1600 => moisturePercentage = 100))
  /\ [][(m_rawValue # NoRaw /\ m_rawValue <= m_rawValue')
          => moisturePercentage >= moisturePercentage']_vars

C1_Witness ==
  m_rawValue = 3210 /\ moisturePercentage = 30

\* C2: after the k-th readTDS() the average is the mean of the k codes read
\* so far when k < 8 and of the last 8 codes read when k >= 8.
C2_AverageOfRecent ==
  t_samples > 0 =>
    /\ Len(t_recent) = Min(t_samples, 8)
    /\ t_avgRaw[2] = Len(t_recent)
    /\ t_avgRaw[1] * Len(t_recent) = SumSeq(t_recent) * t_avgRaw[2]

C2_Witness ==
  t_samples = 9 /\ t_recent[1] = 4095 /\ smoothingBuffer[0] = 0

\* C3: in the moisture sketch too, setup() leaves its WiFi wait loop and
\* starts the HTTP server even when WiFi never reports connected.
C3_ServerEventuallyStarts == <>(m_pc = "loop" /\ m_serverStarted)

\* the pH and TDS sketches do leave the loop
C3_PHServerStarts == <>(p_pc = "loop" /\ p_serverStarted)
C3_TDSServerStarts == <>(t_pc = "timer" /\ t_serverStarted)

\* C4: the pH in the /ph response lies in [0, 14].
C4_PHInRange ==
  p_sum # NoRaw =>
    /\ p_pH >= 0 /\ p_pH <= 14 * PHDen
    /\ p_json.pH >= 0 /\ p_json.pH <= 14000

C4_Witness ==
  p_sum = 0 /\ p_json.pH = 14000

\* C5 as claimed: of two requests the one with the lower voltage reports the
\* strictly greater pH.
C5_StrictlyDecreasing ==
  [][(p_sum # NoRaw /\ p_sum' # NoRaw /\ p_voltage < p_voltage')
       => p_pH > p_pH']_vars

PHUnclipped(pH) == pH > 0 /\ pH < 14 * PHDen

\* C5 as amended: inside (0, 14) the pH is 7.0 + (neutralVoltage - voltage) /
\* slopeVoltagePerPH; of two requests the one with the lower voltage reports
\* a pH that is greater or equal, and equal only when both are clipped to
\* the same end of [0, 14]; the printed pH is greater or equal.
C5_DecreasingUntilClipped ==
  /\ [](p_sum # NoRaw /\ PHUnclipped(p_pH) =>
          p_pH - 7 * PHDen = 2500 * VoltDen - p_voltage)
  /\ [][(p_sum # NoRaw /\ p_sum' # NoRaw /\ p_voltage < p_voltage') =>
          /\ p_pH >= p_pH'
          /\ (p_pH = p_pH' => p_pH \in {0, 14 * PHDen})
          /\ (PHUnclipped(p_pH) /\ PHUnclipped(p_pH')
                => (p_pH - p_pH') = (p_voltage' - p_voltage))
          /\ p_json.pH >= p_json.pH']_vars

C5_Witness ==
  p_sum = 6 * 4095 /\ p_pH > 7 * PHDen /\ p_pH < 14 * PHDen

\* C6: lastTDS is 0 before the first sample and never negative.
C6_TDSNonNegative ==
  /\ lastTDS >= 0
  /\ (t_samples = 0 => lastTDS = 0)

C6_Witness ==
  t_samples > 0 /\ lastTDS > 0

\* C7: the page of GET / shows the percentage of the raw value read in that
\* request, with the alert branch exactly when it is below 30.
C7_PageShowsReading ==
  m_page # NoPage =>
    /\ moisturePercentage \in 0..100
    /\ (m_rawValue \in 1600..3900 =>
          moisturePercentage = (3900 - m_rawValue) \div 23)
    /\ m_page.h2 = Append(DecimalDigits(moisturePercentage), "%")
    /\ m_page.class = IF moisturePercentage < 30 THEN "alert" ELSE "ok"
    /\ (m_rawValue = 1600 => m_page = [h2 |-> <<1, 0, 0, "%">>, class |-> "ok"])
    /\ (m_rawValue = 3900 => m_page = [h2 |-> <<0, "%">>, class |-> "alert"])

C7_Witness ==
  m_rawValue = 1600 /\ m_page.class = "ok"

\* C8: serving a request changes nothing the sampler keeps, and /tds reports
\* what the last readTDS() stored (0 before the first one).
C8_ServingLeavesSampler ==
  /\ [][t_pc = "serve" => UNCHANGED <<sampler, t_samples>>]_vars
  /\ [](t_response.kind = "tds" =>
          /\ t_response.tds = FormatFixed(t_sampledTDS, 100)
          /\ t_response.voltage = FormatFixed(t_sampledVoltage, 1000)
          /\ (t_samples = 0 => t_response.tds = [int |-> 0, frac |-> 0]
                            /\ t_response.voltage = [int |-> 0, frac |-> 0]))

C8_Witness ==
  t_response.kind = "tds" /\ t_samples > 0 /\ t_response.tds.int > 0

\* C9: between calls smoothingIndex is in 0..7, smoothingFilled never goes
\* back to false, and the count readTDS() divides by is in 1..8.
C9_SmoothingBounds ==
  /\ [](/\ smoothingIndex \in 0..7
        /\ (t_samples > 0 => t_count \in 1..8))
  /\ [][smoothingFilled => smoothingFilled']_vars

C9_Witness ==
  smoothingFilled /\ smoothingIndex = 1 /\ t_count = 8

\* C10: a loop() iteration samples exactly when 400 ms or more have passed
\* since lastReadMs was assigned, at most once, also across the wrap of
\* millis().
C10_SamplesEvery400 ==
  /\ [](t_pc = "serve" =>
          /\ (t_sampledNow <=> t_gap >= 400)
          /\ t_elapsed < 400)
  /\ [][t_pc = "timer" =>
          /\ t_samples' <= t_samples + 1
          /\ (t_sampledNow' <=> t_samples' = t_samples + 1)
          /\ (t_sampledNow' => lastReadMs' = t_millis')
          /\ (~t_sampledNow' => UNCHANGED sampler)]_vars

C10_Witness ==
  t_pc = "serve" /\ t_wrapped /\ t_sampledNow /\ t_gap <= 400

Next == Moisture_Next \/ PH_Next \/ TDS_Next
Spec == Init /\ [][Next]_vars
====
